---- MODULE Spec2Model ----
(***************************************************************************)
(* Upload handlers of the file-storage server: handlerUploadVideo and the  *)
(* two handlerUploadThumbnail variants (assets directory, in-process map), *)
(* with getVideoAspectRatio and processVideoForFastStart.                  *)
(*                                                                         *)
(* Every request runs in its own goroutine.  A handler is cut into steps   *)
(* at the points where it touches state shared with other requests or the  *)
(* outside world (database, filesystem, object store, thumbnail map,       *)
(* external tools); the code between two such points is local to the       *)
(* request and belongs to the step it follows.  An error response, the     *)
(* return and the deferred calls that run at the return are part of the    *)
(* step that failed.                                                       *)
(*                                                                         *)
(* The two thumbnail handlers are alternatives of one build each; the      *)
(* model runs them side by side, which contains the runs of either build.  *)
(***************************************************************************)
EXTENDS Integers, Sequences, FiniteSets, TLC

----------------------------------------------------------------------------
(* Bounds *)

NumReqs == 2                  \* requests in flight together
MaxDim  == 50                 \* largest stream dimension of the classifier sweep

Reqs == 1..NumReqs

----------------------------------------------------------------------------
(* Program constants *)

uploadLimit == 1073741824     \* 1 << 30
maxMemory   == 10485760       \* 10 << 20

----------------------------------------------------------------------------
(* Values *)

\* uuid strings are sequences of characters
V1    == <<"a", "-", "1">>
BadID == <<"z", "z">>
PathValues == {V1, BadID}
NilID == <<>>

Users  == {"u1", "u2"}
Tokens == {"none", "bad", "u1", "u2"}     \* Authorization header of a request

\* body sizes in bytes: a small body, and one byte more than the handler's
\* constant
VideoBodySizes     == {1, uploadLimit + 1}
ThumbnailBodySizes == {1, maxMemory + 1}

\* Content-Type headers of the uploaded form part
VideoContentTypes     == {"Video/MP4", "image/png", ""}
ThumbnailContentTypes == {"image/jpeg", "image/png", "text/plain", ""}

Filenames == {"clip.mov", "clip"}

Loc(scheme, prefix, name, ext) ==
    [scheme |-> scheme, prefix |-> prefix, name |-> name, ext |-> ext]
Nil == Loc("nil", "", <<>>, "")

NoVideo == [ID |-> NilID, UserID |-> "", ThumbnailURL |-> Nil, VideoURL |-> Nil]

Key(prefix, name, ext) == [prefix |-> prefix, name |-> name, ext |-> ext]
NoKey == Key("", <<>>, "")

Absent     == [state |-> "absent", by |-> 0]
EmptyFile  == [state |-> "empty", by |-> 0]
Data(r)    == [state |-> "data", by |-> r]

NoThumbnail == [present |-> FALSE, data |-> 0, mediaType |-> ""]
NoObject    == [present |-> FALSE, body |-> 0, contentType |-> ""]

NoProbe == [run |-> TRUE, json |-> TRUE, streams |-> <<>>]
Stream(w, h) == [width |-> w, height |-> h]

----------------------------------------------------------------------------
(* Library functions, by what they do *)

\* uuid.Parse: the error result
uuidParseErr(s) == ~(Len(s) = 3 /\ s[2] = "-")

\* auth.GetBearerToken followed by auth.ValidateJWT
\* -> "noToken", "badJWT" or the user id
tokenUser(tok) ==
    IF tok = "none" THEN "noToken" ELSE IF tok = "bad" THEN "badJWT" ELSE tok

\* mime.ParseMediaType: lower-cases the type, drops parameters, fails on an
\* empty header
ParseMediaType(h) ==
    CASE h = ""          -> [err |-> TRUE,  mediaType |-> ""]
      [] h = "Video/MP4" -> [err |-> FALSE, mediaType |-> "video/mp4"]
      [] OTHER           -> [err |-> FALSE, mediaType |-> h]

\* filepath.Ext
Ext(filename) ==
    CASE filename = "clip.mov" -> ".mov"
      [] filename = "clip.mp4" -> ".mp4"
      [] OTHER                 -> ""

\* strings.ReplaceAll(s, "-", "")
ReplaceAllHyphens(s) == SelectSeq(s, LAMBDA c : c # "-")

\* http.MaxBytesReader / ParseMultipartForm: reading the whole body fails
\* only when the body is wrapped and longer than the wrapper's limit;
\* the maxMemory argument of ParseMultipartForm decides what is kept in
\* memory and what is spilled to disk, it rejects nothing
readBodyErr(size, wrapped, limit, memory) == wrapped /\ size > limit

Abs(x) == IF x < 0 THEN -x ELSE x

----------------------------------------------------------------------------
(* getVideoAspectRatio *)

\* math.Abs(float64(width)/float64(height) - ref) < 0.1, ref = ref100/100.
\* Away from the two edges of the band the float64 result is the exact one:
\* the quotient differs from an edge by at least 1/(100*height), far more
\* than the rounding error.  On an edge the quotient is the double nearest
\* to ref+0.1 or ref-0.1 and the rounding of the literals decides:
\*   1.88 - 1.78 = 0.09999999999999987 < 0.1    0.66 - 0.56 = 0.09999999999999998 < 0.1
\*   1.78 - 1.68 = 0.10000000000000009          0.56 - 0.46 = 0.10000000000000003
\* so the upper edge is inside the band and the lower edge is outside.
absDiffLessTenth(width, height, ref100) ==
    LET d == 100 * width - ref100 * height       \* (ratio - ref) * 100 * height
    IN  IF d = 10 * height THEN TRUE
        ELSE IF d = -10 * height THEN FALSE
        ELSE Abs(d) < 10 * height

\* mutant: zero is taken for a valid dimension
invalidDimensions_zeroValid(width, height) == width < 0 \/ height < 0

invalidDimensions(width, height) == width <= 0 \/ height <= 0

\* out: what ffprobe did: run (exit status 0), json (stdout is valid JSON),
\* streams (the decoded stream descriptors)
getVideoAspectRatio(out) ==
    IF ~out.run THEN [err |-> TRUE, ratio |-> ""]
    ELSE IF ~out.json THEN [err |-> TRUE, ratio |-> ""]
    ELSE IF Len(out.streams) = 0 THEN [err |-> TRUE, ratio |-> ""]
    ELSE LET width  == out.streams[1].width
             height == out.streams[1].height
         IN  IF invalidDimensions(width, height) THEN [err |-> TRUE, ratio |-> ""]
             ELSE IF absDiffLessTenth(width, height, 178)
                     THEN [err |-> FALSE, ratio |-> "16:9"]
             ELSE IF absDiffLessTenth(width, height, 56)
                     THEN [err |-> FALSE, ratio |-> "9:16"]
             ELSE [err |-> FALSE, ratio |-> "other"]

\* mutant: the two cases of the switch exchanged
prefixFor_swapped(aspectRatio) ==
    CASE aspectRatio = "16:9" -> "portrait"
      [] aspectRatio = "9:16" -> "landscape"
      [] OTHER                -> "other"

\* the switch of handlerUploadVideo on the classification
prefixFor(aspectRatio) ==
    CASE aspectRatio = "16:9" -> "landscape"
      [] aspectRatio = "9:16" -> "portrait"
      [] OTHER                -> "other"

\* ffprobe outputs a request of the handler can meet
HandlerProbeOutputs ==
    { [run |-> FALSE, json |-> TRUE, streams |-> <<>>],
      [run |-> TRUE, json |-> FALSE, streams |-> <<>>],
      [run |-> TRUE, json |-> TRUE, streams |-> <<>>] }
    \cup { [run |-> TRUE, json |-> TRUE, streams |-> <<Stream(d[1], d[2])>>] :
             d \in { <<1920, 1080>>, <<1080, 1920>>, <<1000, 1000>>,
                     <<0, 1080>>, <<1920, 0>>, <<-1, 1080>> } }

----------------------------------------------------------------------------
(* processVideoForFastStart *)

\* run: ffmpeg exited with status 0; outfile: what it left at outputFilePath
processVideoForFastStart(run, outfile) ==
    IF ~run THEN [err |-> TRUE, path |-> ""]
    ELSE IF outfile.state = "absent" THEN [err |-> TRUE, path |-> ""]
    ELSE IF outfile.state = "empty" THEN [err |-> TRUE, path |-> ""]
    ELSE [err |-> FALSE, path |-> ".processing"]

----------------------------------------------------------------------------
(* State *)

VARIABLES
    db,               \* the videos table: id -> record
    assets,           \* files under cfg.assetsRoot: path -> content
    tmp,              \* files under os.TempDir(): <<request, suffix>> -> content
    videoThumbnails,  \* the global map of the in-memory variant
    s3,               \* the bucket: key -> object
    rq,               \* the requests: handler, position, locals, responses
    probe             \* classifier sweep: last ffprobe output and its result

vars == <<db, assets, tmp, videoThumbnails, s3, rq, probe>>

DbIDs      == {V1}
AssetPaths == [id : {V1}, ext : {"jpg", "png"}]
TmpPaths   == Reqs \X {"", ".processing"}
S3Keys     == [prefix : {"landscape", "portrait", "other"},
               name : {ReplaceAllHyphens(V1)}, ext : {".mov", ".mp4"}]

Idle ==
    [kind |-> "none", pc |-> "idle", videoID |-> NilID, userID |-> "",
     video |-> NoVideo, wrapped |-> FALSE, size |-> 0, part |-> FALSE,
     ctype |-> "", mediaType |-> "", filename |-> "", fileExtension |-> "",
     out |-> NoProbe, aspectRatio |-> "", prefix |-> "",
     processedFilePath |-> "", defers |-> <<>>, key |-> NoKey,
     status |-> <<>>, log |-> <<>>, failedAt |-> ""]

Init ==
    /\ db = [id \in DbIDs |->
               [ID |-> id, UserID |-> "u1", ThumbnailURL |-> Nil, VideoURL |-> Nil]]
    /\ assets = [p \in AssetPaths |-> Absent]
    /\ tmp = [p \in TmpPaths |-> Absent]
    /\ videoThumbnails = [id \in {V1} |-> NoThumbnail]
    /\ s3 = [k \in S3Keys |-> NoObject]
    /\ rq = [r \in Reqs |-> Idle]
    /\ probe = [out |-> NoProbe, res |-> [err |-> FALSE, ratio |-> ""], done |-> FALSE]

----------------------------------------------------------------------------
(* Helpers shared by the handlers *)

Range(q) == {q[i] : i \in 1..Len(q)}

\* the steps a request has attempted, in order
Logged(rec, steps) == [rec EXCEPT !.log = @ \o steps]

\* respondWithError followed by return
Fail(rec, step, code) ==
    [rec EXCEPT !.pc = "done", !.failedAt = step, !.status = Append(@, code)]

\* respondWithJSON(w, http.StatusOK, video) at the end of a handler
Succeed(rec) == [rec EXCEPT !.pc = "done", !.status = Append(@, 200)]

\* the deferred os.Remove calls of request r, run at its return
RunDefers(t, r, defers) ==
    [p \in DOMAIN t |-> IF p[1] = r /\ p[2] \in Range(defers) THEN Absent ELSE t[p]]

\* request r goes on as rec, with the temp directory as t; when rec has
\* returned, its deferred calls have run
Outcome(r, rec, t) ==
    IF rec.pc = "done"
    THEN /\ rq' = [rq EXCEPT ![r] = [rec EXCEPT !.defers = <<>>]]
         /\ tmp' = RunDefers(t, r, rec.defers)
    ELSE /\ rq' = [rq EXCEPT ![r] = rec]
         /\ tmp' = t

\* uuid.Parse, auth.GetBearerToken, auth.ValidateJWT: the head of all handlers
authenticate(rec, id, tok, next) ==
    IF uuidParseErr(id)
    THEN Fail(Logged(rec, <<"uuid.Parse">>), "uuid.Parse", 400)
    ELSE IF tokenUser(tok) = "noToken"
    THEN Fail(Logged(rec, <<"uuid.Parse", "GetBearerToken">>), "GetBearerToken", 401)
    ELSE IF tokenUser(tok) = "badJWT"
    THEN Fail(Logged(rec, <<"uuid.Parse", "GetBearerToken", "ValidateJWT">>),
              "ValidateJWT", 401)
    ELSE [Logged(rec, <<"uuid.Parse", "GetBearerToken", "ValidateJWT">>)
            EXCEPT !.videoID = id, !.userID = tokenUser(tok), !.pc = next]

\* cfg.db.GetVideo: the row, or an error when there is none or the query fails
GetVideo(id, dbOk) ==
    IF dbOk /\ id \in DOMAIN db
    THEN [err |-> FALSE, video |-> db[id]]
    ELSE [err |-> TRUE, video |-> NoVideo]

\* cfg.db.UpdateVideo: writes the whole row
UpdateVideo(video) == [db EXCEPT ![video.ID] = video]

\* cfg.getObjectURL
getObjectURL(key) == Loc("s3", key.prefix, key.name, key.ext)

----------------------------------------------------------------------------
(* handlerUploadVideo *)

Video_notOwner(video, userID) == video.UserID # userID

Video_allowed(mediaType) == mediaType = "video/mp4"

\* r.FormFile("video") through the MaxBytesReader, then the content type
Video_formFile(rec, size, hasField, ct, fn) ==
    IF readBodyErr(size, rec.wrapped, uploadLimit, 0) \/ ~hasField
    THEN Fail([Logged(rec, <<"FormFile">>) EXCEPT !.size = size], "FormFile", 400)
    ELSE LET got == [Logged(rec, <<"FormFile", "ParseMediaType">>)
                       EXCEPT !.size = size, !.part = TRUE, !.ctype = ct,
                              !.filename = fn]
             mt  == ParseMediaType(ct)
         IN  IF mt.err THEN Fail(got, "ParseMediaType", 400)
             ELSE IF ~Video_allowed(mt.mediaType)
             THEN Fail([got EXCEPT !.mediaType = mt.mediaType], "allow-list", 400)
             ELSE [got EXCEPT !.mediaType = mt.mediaType, !.pc = "CreateTemp"]

Video_afterCreateTemp(rec, ok) ==
    IF ~ok THEN Fail(rec, "CreateTemp", 500)
    ELSE [rec EXCEPT !.defers = Append(@, ""), !.pc = "Copy"]

\* mutant: the return after respondWithError is missing
Video_afterCopy_noReturn(rec, ok) ==
    IF ~ok THEN [rec EXCEPT !.failedAt = "Copy", !.status = Append(@, 500),
                            !.pc = "Probe"]
    ELSE [rec EXCEPT !.pc = "Probe"]

Video_afterCopy(rec, ok) ==
    IF ~ok THEN Fail(rec, "Copy", 500) ELSE [rec EXCEPT !.pc = "Probe"]

Video_afterProbe(rec, out) ==
    LET res == getVideoAspectRatio(out)
        got == [rec EXCEPT !.out = out]
    IN  IF res.err THEN Fail(got, "getVideoAspectRatio", 500)
        ELSE [got EXCEPT !.aspectRatio = res.ratio, !.prefix = prefixFor(res.ratio),
                         !.pc = "FastStart"]

Video_afterFastStart(rec, res) ==
    IF res.err THEN Fail(rec, "processVideoForFastStart", 500)
    ELSE [rec EXCEPT !.processedFilePath = res.path,
                     !.defers = Append(@, res.path), !.pc = "Open"]

Video_afterOpen(rec, ok) ==
    IF ~ok THEN Fail(rec, "Open", 500) ELSE [rec EXCEPT !.pc = "PutObject"]

\* fileExt, fileName and key
Video_key(rec) ==
    LET fileExt  == IF Ext(rec.filename) = "" THEN ".mp4" ELSE Ext(rec.filename)
        fileName == ReplaceAllHyphens(rec.videoID)
    IN  Key(rec.prefix, fileName, fileExt)

\* mutant: the error of PutObject is dropped
Video_afterPutObject_ignoreErr(rec, ok) == [rec EXCEPT !.pc = "UpdateVideo"]

Video_afterPutObject(rec, ok) ==
    IF ~ok THEN Fail(rec, "PutObject", 500) ELSE [rec EXCEPT !.pc = "UpdateVideo"]

\* mutant: the error of UpdateVideo is dropped
Video_afterUpdateVideo_ignoreErr(rec, ok) == Succeed(rec)

Video_afterUpdateVideo(rec, ok) ==
    IF ~ok THEN Fail(rec, "UpdateVideo", 500) ELSE Succeed(rec)

Video_Start(r) ==
    /\ rq[r].pc = "idle"
    /\ \E id \in PathValues, tok \in Tokens :
         Outcome(r, authenticate([rq[r] EXCEPT !.kind = "video", !.wrapped = TRUE],
                                 id, tok, "GetVideo"), tmp)
    /\ UNCHANGED <<db, assets, videoThumbnails, s3, probe>>

Video_GetVideo(r) ==
    /\ rq[r].kind = "video" /\ rq[r].pc = "GetVideo"
    /\ \E dbOk \in BOOLEAN :
         LET res == GetVideo(rq[r].videoID, dbOk)
             rec == Logged(rq[r], <<"GetVideo">>)
         IN  Outcome(r,
                 IF res.err THEN Fail(rec, "GetVideo", 500)
                 ELSE IF Video_notOwner(res.video, rec.userID)
                 THEN Fail([rec EXCEPT !.video = res.video], "owner", 401)
                 ELSE [rec EXCEPT !.video = res.video, !.pc = "FormFile"],
                 tmp)
    /\ UNCHANGED <<db, assets, videoThumbnails, s3, probe>>

Video_FormFile(r) ==
    /\ rq[r].kind = "video" /\ rq[r].pc = "FormFile"
    /\ \E size \in VideoBodySizes, hasField \in BOOLEAN, ct \in VideoContentTypes,
          fn \in Filenames :
         Outcome(r, Video_formFile(rq[r], size, hasField, ct, fn), tmp)
    /\ UNCHANGED <<db, assets, videoThumbnails, s3, probe>>

Video_CreateTemp(r) ==
    /\ rq[r].kind = "video" /\ rq[r].pc = "CreateTemp"
    /\ \E ok \in BOOLEAN :
         Outcome(r, Video_afterCreateTemp(Logged(rq[r], <<"CreateTemp">>), ok),
                 IF ok THEN [tmp EXCEPT ![<<r, "">>] = EmptyFile] ELSE tmp)
    /\ UNCHANGED <<db, assets, videoThumbnails, s3, probe>>

Video_Copy(r) ==
    /\ rq[r].kind = "video" /\ rq[r].pc = "Copy"
    /\ \E ok \in BOOLEAN :
         Outcome(r, Video_afterCopy(Logged(rq[r], <<"Copy">>), ok),
                 IF ok THEN [tmp EXCEPT ![<<r, "">>] = Data(r)] ELSE tmp)
    /\ UNCHANGED <<db, assets, videoThumbnails, s3, probe>>

Video_Probe(r) ==
    /\ rq[r].kind = "video" /\ rq[r].pc = "Probe"
    /\ \E out \in HandlerProbeOutputs :
         Outcome(r, Video_afterProbe(Logged(rq[r], <<"getVideoAspectRatio">>), out),
                 tmp)
    /\ UNCHANGED <<db, assets, videoThumbnails, s3, probe>>

\* ffmpeg may leave an output file behind whether it succeeds or fails
Video_FastStart(r) ==
    /\ rq[r].kind = "video" /\ rq[r].pc = "FastStart"
    /\ \E run \in BOOLEAN, outfile \in {Absent, EmptyFile, Data(r)} :
         Outcome(r, Video_afterFastStart(
                        Logged(rq[r], <<"processVideoForFastStart">>),
                        processVideoForFastStart(run, outfile)),
                 [tmp EXCEPT ![<<r, ".processing">>] = outfile])
    /\ UNCHANGED <<db, assets, videoThumbnails, s3, probe>>

Video_Open(r) ==
    /\ rq[r].kind = "video" /\ rq[r].pc = "Open"
    /\ \E ok \in BOOLEAN :
         Outcome(r, Video_afterOpen(Logged(rq[r], <<"Open">>), ok), tmp)
    /\ UNCHANGED <<db, assets, videoThumbnails, s3, probe>>

Video_PutObject(r) ==
    /\ rq[r].kind = "video" /\ rq[r].pc = "PutObject"
    /\ \E ok \in BOOLEAN :
         LET key == Video_key(rq[r])
             rec == [Logged(rq[r], <<"PutObject">>) EXCEPT !.key = key]
         IN  /\ Outcome(r, Video_afterPutObject(rec, ok), tmp)
             /\ s3' = IF ok
                      THEN [s3 EXCEPT ![key] = [present |-> TRUE, body |-> r,
                                                contentType |-> rec.mediaType]]
                      ELSE s3
    /\ UNCHANGED <<db, assets, videoThumbnails, probe>>

Video_UpdateVideo(r) ==
    /\ rq[r].kind = "video" /\ rq[r].pc = "UpdateVideo"
    /\ \E ok \in BOOLEAN :
         LET video == [rq[r].video EXCEPT !.VideoURL = getObjectURL(rq[r].key)]
             rec   == [Logged(rq[r], <<"UpdateVideo">>) EXCEPT !.video = video]
         IN  /\ Outcome(r, Video_afterUpdateVideo(rec, ok), tmp)
             /\ db' = IF ok THEN UpdateVideo(video) ELSE db
    /\ UNCHANGED <<assets, videoThumbnails, s3, probe>>

----------------------------------------------------------------------------
(* handlerUploadThumbnail, assets-directory variant *)

Disk_notOwner(video, userID) == video.UserID # userID

\* the switch on the media type: the extension, "" for the default branch
Disk_fileExtension(mediaType) ==
    CASE mediaType = "image/jpeg" -> "jpg"
      [] mediaType = "image/png"  -> "png"
      [] OTHER                    -> ""

\* r.ParseMultipartForm(maxMemory), r.FormFile("thumbnail"), the content type
Disk_parseForm(rec, size, wellFormed, hasField, ct) ==
    IF readBodyErr(size, rec.wrapped, 0, maxMemory) \/ ~wellFormed
    THEN Fail([Logged(rec, <<"ParseMultipartForm">>) EXCEPT !.size = size],
              "ParseMultipartForm", 400)
    ELSE IF ~hasField
    THEN Fail([Logged(rec, <<"ParseMultipartForm", "FormFile">>)
                 EXCEPT !.size = size], "FormFile", 400)
    ELSE LET got == [Logged(rec, <<"ParseMultipartForm", "FormFile",
                                   "ParseMediaType">>)
                       EXCEPT !.size = size, !.part = TRUE, !.ctype = ct]
             mt  == ParseMediaType(ct)
         IN  IF mt.err THEN Fail(got, "ParseMediaType", 400)
             ELSE IF Disk_fileExtension(mt.mediaType) = ""
             THEN Fail([got EXCEPT !.mediaType = mt.mediaType], "allow-list", 400)
             ELSE [got EXCEPT !.mediaType = mt.mediaType,
                              !.fileExtension = Disk_fileExtension(mt.mediaType),
                              !.pc = "Create"]

\* filepath.Join(cfg.assetsRoot, videoID.String() + "." + fileExtension)
Disk_filePath(rec) == [id |-> rec.videoID, ext |-> rec.fileExtension]

Disk_afterCreate(rec, ok) ==
    IF ~ok THEN Fail(rec, "Create", 500) ELSE [rec EXCEPT !.pc = "Copy"]

Disk_afterCopy(rec, ok) ==
    IF ~ok THEN Fail(rec, "Copy", 500) ELSE [rec EXCEPT !.pc = "GetVideo"]

Disk_afterUpdateVideo(rec, ok) ==
    IF ~ok THEN Fail(rec, "UpdateVideo", 500) ELSE Succeed(rec)

Disk_Start(r) ==
    /\ rq[r].pc = "idle"
    /\ \E id \in PathValues, tok \in Tokens :
         Outcome(r, authenticate([rq[r] EXCEPT !.kind = "disk"], id, tok,
                                 "ParseForm"), tmp)
    /\ UNCHANGED <<db, assets, videoThumbnails, s3, probe>>

Disk_ParseForm(r) ==
    /\ rq[r].kind = "disk" /\ rq[r].pc = "ParseForm"
    /\ \E size \in ThumbnailBodySizes, wellFormed \in BOOLEAN,
          hasField \in BOOLEAN, ct \in ThumbnailContentTypes :
         Outcome(r, Disk_parseForm(rq[r], size, wellFormed, hasField, ct), tmp)
    /\ UNCHANGED <<db, assets, videoThumbnails, s3, probe>>

\* os.Create truncates the file when it exists
Disk_Create(r) ==
    /\ rq[r].kind = "disk" /\ rq[r].pc = "Create"
    /\ \E ok \in BOOLEAN :
         /\ Outcome(r, Disk_afterCreate(Logged(rq[r], <<"Create">>), ok), tmp)
         /\ assets' = IF ok THEN [assets EXCEPT ![Disk_filePath(rq[r])] = EmptyFile]
                      ELSE assets
    /\ UNCHANGED <<db, videoThumbnails, s3, probe>>

Disk_Copy(r) ==
    /\ rq[r].kind = "disk" /\ rq[r].pc = "Copy"
    /\ \E ok \in BOOLEAN :
         /\ Outcome(r, Disk_afterCopy(Logged(rq[r], <<"Copy">>), ok), tmp)
         /\ assets' = IF ok THEN [assets EXCEPT ![Disk_filePath(rq[r])] = Data(r)]
                      ELSE assets
    /\ UNCHANGED <<db, videoThumbnails, s3, probe>>

Disk_GetVideo(r) ==
    /\ rq[r].kind = "disk" /\ rq[r].pc = "GetVideo"
    /\ \E dbOk \in BOOLEAN :
         LET res == GetVideo(rq[r].videoID, dbOk)
             rec == Logged(rq[r], <<"GetVideo">>)
         IN  Outcome(r,
                 IF res.err THEN Fail(rec, "GetVideo", 500)
                 ELSE IF Disk_notOwner(res.video, rec.userID)
                 THEN Fail([rec EXCEPT !.video = res.video], "owner", 401)
                 ELSE [rec EXCEPT !.video = res.video, !.pc = "UpdateVideo"],
                 tmp)
    /\ UNCHANGED <<db, assets, videoThumbnails, s3, probe>>

Disk_UpdateVideo(r) ==
    /\ rq[r].kind = "disk" /\ rq[r].pc = "UpdateVideo"
    /\ \E ok \in BOOLEAN :
         LET thumbnailURL == Loc("assets", "", rq[r].videoID, rq[r].fileExtension)
             video == [rq[r].video EXCEPT !.ThumbnailURL = thumbnailURL]
             rec   == [Logged(rq[r], <<"UpdateVideo">>) EXCEPT !.video = video]
         IN  /\ Outcome(r, Disk_afterUpdateVideo(rec, ok), tmp)
             /\ db' = IF ok THEN UpdateVideo(video) ELSE db
    /\ UNCHANGED <<assets, videoThumbnails, s3, probe>>

----------------------------------------------------------------------------
(* handlerUploadThumbnail, in-memory variant *)

\* mutant: the ownership check is missing
Mem_notOwner_never(video, userID) == FALSE

Mem_notOwner(video, userID) == video.UserID # userID

\* r.ParseMultipartForm(maxMemory), r.FormFile("thumbnail")
Mem_parseForm(rec, size, wellFormed, hasField, ct) ==
    IF readBodyErr(size, rec.wrapped, 0, maxMemory) \/ ~wellFormed
    THEN Fail([Logged(rec, <<"ParseMultipartForm">>) EXCEPT !.size = size],
              "ParseMultipartForm", 400)
    ELSE IF ~hasField
    THEN Fail([Logged(rec, <<"ParseMultipartForm", "FormFile">>)
                 EXCEPT !.size = size], "FormFile", 400)
    ELSE [Logged(rec, <<"ParseMultipartForm", "FormFile">>)
            EXCEPT !.size = size, !.part = TRUE, !.ctype = ct, !.pc = "ReadAll"]

Mem_afterReadAll(rec, ok) ==
    IF ~ok THEN Fail(rec, "ReadAll", 500) ELSE [rec EXCEPT !.pc = "GetVideo"]

Mem_afterUpdateVideo(rec, ok) ==
    IF ~ok THEN Fail(rec, "UpdateVideo", 500) ELSE Succeed(rec)

Mem_Start(r) ==
    /\ rq[r].pc = "idle"
    /\ \E id \in PathValues, tok \in Tokens :
         Outcome(r, authenticate([rq[r] EXCEPT !.kind = "mem"], id, tok,
                                 "ParseForm"), tmp)
    /\ UNCHANGED <<db, assets, videoThumbnails, s3, probe>>

Mem_ParseForm(r) ==
    /\ rq[r].kind = "mem" /\ rq[r].pc = "ParseForm"
    /\ \E size \in ThumbnailBodySizes, wellFormed \in BOOLEAN,
          hasField \in BOOLEAN, ct \in ThumbnailContentTypes :
         Outcome(r, Mem_parseForm(rq[r], size, wellFormed, hasField, ct), tmp)
    /\ UNCHANGED <<db, assets, videoThumbnails, s3, probe>>

Mem_ReadAll(r) ==
    /\ rq[r].kind = "mem" /\ rq[r].pc = "ReadAll"
    /\ \E ok \in BOOLEAN :
         Outcome(r, Mem_afterReadAll(Logged(rq[r], <<"ReadAll">>), ok), tmp)
    /\ UNCHANGED <<db, assets, videoThumbnails, s3, probe>>

Mem_GetVideo(r) ==
    /\ rq[r].kind = "mem" /\ rq[r].pc = "GetVideo"
    /\ \E dbOk \in BOOLEAN :
         LET res == GetVideo(rq[r].videoID, dbOk)
             rec == Logged(rq[r], <<"GetVideo">>)
         IN  Outcome(r,
                 IF res.err THEN Fail(rec, "GetVideo", 500)
                 ELSE IF Mem_notOwner(res.video, rec.userID)
                 THEN Fail([rec EXCEPT !.video = res.video], "owner", 401)
                 ELSE [rec EXCEPT !.video = res.video, !.pc = "Store"],
                 tmp)
    /\ UNCHANGED <<db, assets, videoThumbnails, s3, probe>>

\* videoThumbnails[videoID] = thumbnail{data, mediaType}
Mem_Store(r) ==
    /\ rq[r].kind = "mem" /\ rq[r].pc = "Store"
    /\ Outcome(r, [Logged(rq[r], <<"Store">>) EXCEPT !.pc = "UpdateVideo"], tmp)
    /\ videoThumbnails' = [videoThumbnails EXCEPT ![rq[r].videoID] =
                             [present |-> TRUE, data |-> r, mediaType |-> rq[r].ctype]]
    /\ UNCHANGED <<db, assets, s3, probe>>

Mem_UpdateVideo(r) ==
    /\ rq[r].kind = "mem" /\ rq[r].pc = "UpdateVideo"
    /\ \E ok \in BOOLEAN :
         LET thumbnailURL == Loc("api", "", rq[r].videoID, "")
             video == [rq[r].video EXCEPT !.ThumbnailURL = thumbnailURL]
             rec   == [Logged(rq[r], <<"UpdateVideo">>) EXCEPT !.video = video]
         IN  /\ Outcome(r, Mem_afterUpdateVideo(rec, ok), tmp)
             /\ db' = IF ok THEN UpdateVideo(video) ELSE db
    /\ UNCHANGED <<assets, videoThumbnails, s3, probe>>

----------------------------------------------------------------------------
(* Classifier sweep: getVideoAspectRatio on every ffprobe output with up to *)
(* two streams and dimensions in -1..MaxDim                                 *)

ProbeFile ==
    /\ ~probe.done
    /\ \E run \in BOOLEAN, json \in BOOLEAN, n \in 0..2,
          w \in -1..MaxDim, h \in -1..MaxDim :
         LET streams == IF ~run \/ ~json \/ n = 0 THEN <<>>
                        ELSE IF n = 1 THEN <<Stream(w, h)>>
                        ELSE <<Stream(w, h), Stream(0, 0)>>
             out == [run |-> run, json |-> json, streams |-> streams]
         IN  probe' = [out |-> out, res |-> getVideoAspectRatio(out), done |-> TRUE]
    /\ UNCHANGED <<db, assets, tmp, videoThumbnails, s3, rq>>

----------------------------------------------------------------------------
(* Specifications *)

Next ==
    \E r \in Reqs :
        \/ Video_Start(r)
        \/ Video_GetVideo(r)
        \/ Video_FormFile(r)
        \/ Video_CreateTemp(r)
        \/ Video_Copy(r)
        \/ Video_Probe(r)
        \/ Video_FastStart(r)
        \/ Video_Open(r)
        \/ Video_PutObject(r)
        \/ Video_UpdateVideo(r)
        \/ Disk_Start(r)
        \/ Disk_ParseForm(r)
        \/ Disk_Create(r)
        \/ Disk_Copy(r)
        \/ Disk_GetVideo(r)
        \/ Disk_UpdateVideo(r)
        \/ Mem_Start(r)
        \/ Mem_ParseForm(r)
        \/ Mem_ReadAll(r)
        \/ Mem_GetVideo(r)
        \/ Mem_Store(r)
        \/ Mem_UpdateVideo(r)

Spec == Init /\ [][Next]_vars

NextClassify == ProbeFile

SpecClassify == Init /\ [][NextClassify]_vars

----------------------------------------------------------------------------
(* Vocabulary of the properties *)

Steps(r) == Range(rq[r].log)

\* r has looked the record up and is not its owner
NotOwner(r) ==
    rq[r].video.ID # NilID /\ rq[r].userID # rq[r].video.UserID

\* r is authenticated as somebody who does not own the stored record it names
ForeignRequest(r) ==
    /\ rq[r].userID # ""
    /\ rq[r].videoID \in DOMAIN db
    /\ db[rq[r].videoID].UserID # rq[r].userID

\* steps that stage a file or place an artifact, and the record update
StagingSteps   == {"CreateTemp", "Create", "Copy"}
PlacementSteps == {"Create", "Copy", "Store", "PutObject"}
WritingSteps   == StagingSteps \cup PlacementSteps \cup {"UpdateVideo"}

\* r holds something in one of the stores
HoldsArtifact(r) ==
    \/ \E p \in DOMAIN assets : assets[p].by = r
    \/ \E p \in DOMAIN tmp : tmp[p].by = r
    \/ \E id \in DOMAIN videoThumbnails :
          videoThumbnails[id].present /\ videoThumbnails[id].data = r
    \/ \E k \in DOMAIN s3 : s3[k].present /\ s3[k].body = r

AllowList(kind) ==
    IF kind = "video" THEN {"video/mp4"} ELSE {"image/jpeg", "image/png"}

\* the form part of r was read and its declared type is not allow-listed
DeclaredOutsideAllowList(r) ==
    /\ rq[r].part
    /\ \/ ParseMediaType(rq[r].ctype).err
       \/ ParseMediaType(rq[r].ctype).mediaType \notin AllowList(rq[r].kind)

\* the body of r was read and is longer than the constant of its handler
Oversize(r) ==
    /\ rq[r].kind = "video" => rq[r].size > uploadLimit
    /\ rq[r].kind \in {"disk", "mem"} => rq[r].size > maxMemory
    /\ rq[r].kind # "none"

----------------------------------------------------------------------------
(* C1 *)

\* C1: in every upload handler, a request whose authenticated user is not
\* the UserID of the record it looked up has been answered 401 and nothing
\* else, has not called UpdateVideo, and the step that finds the mismatch
\* leaves the table as it was.
C1_NotOwnerUnauthorized ==
    /\ [](\A r \in Reqs :
            NotOwner(r) => /\ rq[r].pc = "done"
                           /\ rq[r].status = <<401>>
                           /\ "UpdateVideo" \notin Steps(r))
    /\ [][\A r \in Reqs : (rq'[r] # rq[r] /\ NotOwner(r)') => db' = db]_vars

C1_Witness ==
    \E r, q \in Reqs :
        /\ rq[r].kind = "video" /\ NotOwner(r) /\ rq[r].status = <<401>>
        /\ rq[q].kind \in {"disk", "mem"} /\ NotOwner(q) /\ rq[q].status = <<401>>

----------------------------------------------------------------------------
(* C2 *)

\* C2: once handlerUploadVideo has returned, on whatever path, neither the
\* staged temporary file nor the "<staged>.processing" file exists.
C2_TempFilesRemoved ==
    \A r \in Reqs :
        (rq[r].kind = "video" /\ rq[r].pc = "done")
            => /\ tmp[<<r, "">>] = Absent
               /\ tmp[<<r, ".processing">>] = Absent

----------------------------------------------------------------------------
(* C3 *)

\* C3: in every upload handler, a form part whose declared content type is
\* outside the allow-list is rejected with a 400, and no file has been staged,
\* no artifact stored and no record updated for it.  Of the response only
\* "is not a 200" is stated, so that what refutes the property is an upload
\* that went through and not a different error code.
C3_DisallowedTypeRejected ==
    \A r \in Reqs :
        DeclaredOutsideAllowList(r)
            => /\ Steps(r) \cap WritingSteps = {}
               /\ ~HoldsArtifact(r)
               /\ rq[r].status # <<200>>

----------------------------------------------------------------------------
(* C4 *)

\* C4: in every upload handler, a request whose body is longer than the
\* handler's fixed upper bound is rejected with a client error, and no
\* artifact is stored and no record updated for it.  Of the response only
\* "is not a 200" is stated, as for C3.
C4_OversizeRejected ==
    \A r \in Reqs :
        Oversize(r)
            => /\ Steps(r) \cap WritingSteps = {}
               /\ ~HoldsArtifact(r)
               /\ rq[r].status # <<200>>

----------------------------------------------------------------------------
(* C5 *)

\* |width/height - ref100/100| < 1/10, in exact arithmetic
WithinTenth(width, height, ref100) ==
    Abs(100 * width - ref100 * height) < 10 * height

\* C5: for every positive (width, height) of the first stream the result is
\* "16:9" when width/height is within 0.1 of 1.78, "9:16" when it is within
\* 0.1 of 0.56 and "other" for every other pair; the bands do not overlap.
C5_Classification ==
    (probe.done /\ Len(probe.out.streams) > 0
       /\ probe.out.streams[1].width > 0 /\ probe.out.streams[1].height > 0)
    => LET w == probe.out.streams[1].width
           h == probe.out.streams[1].height
       IN  /\ ~probe.res.err
           /\ ~(WithinTenth(w, h, 178) /\ WithinTenth(w, h, 56))
           /\ WithinTenth(w, h, 178) => probe.res.ratio = "16:9"
           /\ WithinTenth(w, h, 56) => probe.res.ratio = "9:16"
           /\ (~WithinTenth(w, h, 178) /\ ~WithinTenth(w, h, 56))
                 => probe.res.ratio = "other"

----------------------------------------------------------------------------
(* C6 *)

\* r has run the classifier on an output without streams or with a first
\* stream whose width or height is not positive
BadProbe(r) ==
    /\ "getVideoAspectRatio" \in Steps(r)
    /\ rq[r].out.run /\ rq[r].out.json
    /\ \/ Len(rq[r].out.streams) = 0
       \/ rq[r].out.streams[1].width <= 0
       \/ rq[r].out.streams[1].height <= 0

\* C6: when the probe output has no stream descriptors, or the first
\* stream's width or height is <= 0, getVideoAspectRatio fails without a
\* category, and handlerUploadVideo answers 500, uploads no object and does
\* not update the record.
C6_InvalidDimensionsFail ==
    \A r \in Reqs :
        BadProbe(r)
            => /\ rq[r].aspectRatio = "" /\ rq[r].prefix = ""
               /\ rq[r].pc = "done" /\ rq[r].status = <<500>>
               /\ rq[r].failedAt = "getVideoAspectRatio"
               /\ Steps(r) \cap {"PutObject", "UpdateVideo"} = {}
               /\ \A k \in DOMAIN s3 : ~(s3[k].present /\ s3[k].body = r)

C6_Witness ==
    \E r, q \in Reqs :
        /\ BadProbe(r) /\ Len(rq[r].out.streams) = 0 /\ rq[r].status = <<500>>
        /\ BadProbe(q) /\ Len(rq[q].out.streams) = 1
        /\ rq[q].out.streams[1].height = 0 /\ rq[q].status = <<500>>

----------------------------------------------------------------------------
(* C7 *)

\* the request r answers 200 in this step
Answers200(r) == rq[r].pc # "done" /\ rq'[r].pc = "done" /\ rq'[r].status = <<200>>

\* C7: when handlerUploadVideo answers 200, the record's VideoURL is the
\* object URL of the key that was uploaded; the key is the prefix, the video
\* id without hyphens and the extension of the uploaded file name; the
\* prefix is "landscape" exactly when the classification was "16:9" (as for
\* a 1920x1080 stream), "portrait" exactly when it was "9:16", and "other"
\* otherwise.
C7_VideoURLKey ==
    [][\A r \in Reqs :
         (rq[r].kind = "video" /\ Answers200(r))
            => LET k == rq'[r].key
                   d == rq'[r].out.streams[1]
               IN  /\ db'[V1].VideoURL =
                         [scheme |-> "s3", prefix |-> k.prefix,
                          name |-> k.name, ext |-> k.ext]
                   /\ s3'[k].present
                   /\ k.name = <<"a", "1">>
                   /\ rq'[r].filename = "clip.mov" => k.ext = ".mov"
                   /\ rq'[r].filename = "clip" => k.ext = ".mp4"
                   /\ k.prefix = "landscape" <=> rq'[r].aspectRatio = "16:9"
                   /\ k.prefix = "portrait" <=> rq'[r].aspectRatio = "9:16"
                   /\ k.prefix = "other" <=> rq'[r].aspectRatio \notin {"16:9", "9:16"}
                   /\ (d.width = 1920 /\ d.height = 1080) => k.prefix = "landscape"
                   /\ (d.width = 1080 /\ d.height = 1920) => k.prefix = "portrait"
                   /\ (d.width = 1000 /\ d.height = 1000) => k.prefix = "other"
      ]_vars

C7_Witness ==
    \E r \in Reqs :
        /\ rq[r].kind = "video" /\ rq[r].status = <<200>>
        /\ rq[r].out.streams = <<Stream(1920, 1080)>>
        /\ db[V1].VideoURL = Loc("s3", "landscape", <<"a", "1">>, ".mp4")
        /\ s3[Key("landscape", <<"a", "1">>, ".mp4")].present

----------------------------------------------------------------------------
(* C8 *)

\* position of a step in the log of r, 0 when it is not there
IndexOf(r, step) ==
    IF step \in Steps(r)
    THEN CHOOSE i \in 1..Len(rq[r].log) : rq[r].log[i] = step
    ELSE 0

\* r attempted the step, it did not fail, and it came before UpdateVideo
PlacedBeforeUpdate(r, step) ==
    /\ step \in Steps(r)
    /\ rq[r].failedAt # step
    /\ IndexOf(r, step) < IndexOf(r, "UpdateVideo")

\* C8: in every upload handler UpdateVideo is called only after the final
\* artifact of the same request has been placed successfully (the file
\* created and written, the map entry stored, the object put); a request
\* whose placement failed never updates the record.
C8_UpdateAfterPlacement ==
    \A r \in Reqs :
        /\ "UpdateVideo" \in Steps(r)
              => /\ rq[r].kind = "video"
                    => /\ PlacedBeforeUpdate(r, "PutObject")
                       /\ s3[rq[r].key].present
                 /\ rq[r].kind = "disk"
                    => /\ PlacedBeforeUpdate(r, "Create")
                       /\ PlacedBeforeUpdate(r, "Copy")
                       /\ assets[[id |-> rq[r].videoID,
                                  ext |-> rq[r].fileExtension]].state # "absent"
                 /\ rq[r].kind = "mem"
                    => /\ PlacedBeforeUpdate(r, "Store")
                       /\ videoThumbnails[rq[r].videoID].present
        /\ rq[r].failedAt \in PlacementSteps
              => "UpdateVideo" \notin Steps(r)

C8_Witness ==
    \E r, q \in Reqs :
        /\ rq[r].kind = "video" /\ rq[r].failedAt = "PutObject"
        /\ rq[r].pc = "done" /\ db[V1].VideoURL = Nil
        /\ rq[q].kind = "disk" /\ rq[q].status = <<200>>
        /\ db[V1].ThumbnailURL = Loc("assets", "", V1, rq[q].fileExtension)

----------------------------------------------------------------------------
(* C9 *)

\* the steps of handlerUploadVideo, in the order of the code
VideoPipeline ==
    <<"uuid.Parse", "GetBearerToken", "ValidateJWT", "GetVideo", "FormFile",
      "ParseMediaType", "CreateTemp", "Copy", "getVideoAspectRatio",
      "processVideoForFastStart", "Open", "PutObject", "UpdateVideo">>

IsPrefix(a, b) == Len(a) <= Len(b) /\ a = SubSeq(b, 1, Len(a))

\* the step whose failure the handler reports as failedAt
FailedStep(failedAt) ==
    CASE failedAt = "owner"      -> "GetVideo"
      [] failedAt = "allow-list" -> "ParseMediaType"
      [] OTHER                   -> failedAt

\* C9: in handlerUploadVideo every step is terminal on failure: the steps
\* run once each in the order of the pipeline, a failed step is the last one
\* run and is followed by exactly one error response, nothing of the request
\* changes after a response, and 200 is answered only when every step up to
\* UpdateVideo has succeeded.
C9_TerminalOnFailure ==
    /\ [](\A r \in Reqs :
            rq[r].kind = "video"
               => /\ IsPrefix(rq[r].log, VideoPipeline)
                  /\ Len(rq[r].status) <= 1
                  /\ rq[r].status # <<>> <=> rq[r].pc = "done"
                  /\ rq[r].failedAt # ""
                       => /\ rq[r].pc = "done"
                          /\ rq[r].status \in {<<400>>, <<401>>, <<500>>}
                          /\ rq[r].log[Len(rq[r].log)] = FailedStep(rq[r].failedAt)
                  /\ rq[r].status = <<200>>
                       => /\ rq[r].failedAt = ""
                          /\ rq[r].log = VideoPipeline)
    /\ [][\A r \in Reqs :
            (rq[r].kind = "video" /\ rq[r].status # <<>>) => rq'[r] = rq[r]]_vars

C9_Witness ==
    \E r, q \in Reqs :
        /\ rq[r].kind = "video" /\ rq[r].failedAt = "PutObject"
        /\ rq[r].status = <<500>>
        /\ rq[q].kind = "video" /\ rq[q].status = <<200>>

----------------------------------------------------------------------------
(* C10 *)

\* r has written a stored artifact
StoredArtifact(r) ==
    \/ \E p \in DOMAIN assets : assets[p].by = r
    \/ \E id \in DOMAIN videoThumbnails :
          videoThumbnails[id].present /\ videoThumbnails[id].data = r
    \/ \E k \in DOMAIN s3 : s3[k].present /\ s3[k].body = r

\* C10: no upload handler places or overwrites a stored artifact (the file
\* under the assets root, the videoThumbnails entry, the object) of a video
\* for a request whose authenticated user does not own the video's record.
C10_NoForeignArtifact ==
    \A r \in Reqs :
        ForeignRequest(r)
            => /\ Steps(r) \cap {"Create", "Store", "PutObject"} = {}
               /\ ~StoredArtifact(r)

----------------------------------------------------------------------------
(* C11 *)

\* the requests that have answered 200
Answered200 == {r \in Reqs : rq[r].status = <<200>>}

\* r is a video upload and q a thumbnail upload for the same record, and
\* both have answered 200
BothAnswered200(r, q) ==
    /\ rq[r].kind = "video" /\ rq[q].kind \in {"disk", "mem"}
    /\ rq[r].videoID = rq[q].videoID
    /\ rq[r].status = <<200>> /\ rq[q].status = <<200>>

\* C11 as stated: when a thumbnail upload and a video upload for the same
\* record both answer 200, the stored record holds the new VideoURL and the
\* new ThumbnailURL, whatever the interleaving of their GetVideo reads and
\* UpdateVideo writes.
C11_NoLostUpdate ==
    \A r, q \in Reqs :
        BothAnswered200(r, q)
            => /\ db[rq[r].videoID].VideoURL = rq[r].video.VideoURL
               /\ db[rq[r].videoID].ThumbnailURL = rq[q].video.ThumbnailURL

\* C11 as amended: the last UpdateVideo wins.  A request that answers 200
\* stores the record it read at its GetVideo with its own locator set and
\* the other locator as read; so once requests have answered 200 the stored
\* record is the record one of them returned, and it holds both new
\* locators only when the last writer read the record after the other
\* request had written it.
C11_LastWriterWins ==
    /\ [](Answered200 # {} => \E r \in Answered200 : db[V1] = rq[r].video)
    /\ [][\A r \in Reqs :
            Answers200(r)
               => /\ db'[V1] = rq'[r].video
                  /\ rq[r].kind = "video"
                       => rq'[r].video.ThumbnailURL = rq[r].video.ThumbnailURL
                  /\ rq[r].kind \in {"disk", "mem"}
                       => rq'[r].video.VideoURL = rq[r].video.VideoURL]_vars

\* both uploads answered 200 and the thumbnail locator is lost
C11_Witness ==
    \E r, q \in Reqs :
        /\ BothAnswered200(r, q)
        /\ db[V1] = rq[r].video
        /\ db[V1].VideoURL # Nil
        /\ db[V1].ThumbnailURL = Nil
        /\ rq[q].video.ThumbnailURL # Nil

====
